---- MODULE Spec2Model ----
(***************************************************************************)
(* Model of src/mcp_server.py: the MCP server that exposes the agent       *)
(* framework through twelve named tools.  The state is the two module      *)
(* level dicts AGENTS and SESSIONS; one action per tool handler, each a    *)
(* call through handle_call_tool, plus handle_list_tools.                  *)
(*                                                                         *)
(* Python values are modelled as follows.                                  *)
(*   str        a TLA+ string; f-strings are built with \o.  Text whose    *)
(*              characters matter (lower(), substring) is a sequence of    *)
(*              one-character strings.                                     *)
(*   dict       an insertion-ordered sequence of [key, value] items        *)
(*              (AGENTS, SESSIONS); a keyword-argument dict or a JSON      *)
(*              object is a TLA+ function whose domain is a set of strings.*)
(*   list/None  where a parameter may be either, the tagged records        *)
(*              PyList(s) and PyNone.                                      *)
(*   exception  a record [type, msg]; str(e) is msg.                       *)
(* The framework (LlmAgent, Runner, the session service, MCPToolset, the   *)
(* search and page tools) is not part of src/: each call into it that the  *)
(* code wraps in try/except either returns or raises, as chosen by the     *)
(* oracle argument of the handler; the LlmAgent constructor, which the     *)
(* code does not guard, returns.                                           *)
(***************************************************************************)
EXTENDS Naturals, Sequences, FiniteSets, TLC

\* AGENTS, SESSIONS: the module level dicts of the server.
\* last: the request being answered.  given, called: history variables (what
\* create_adk_agent was given per name; the session run_adk_agent first ran
\* on per agent_name and session_id).  par: one run of the parallel agent of
\* tests/unittests/agents/test_parallel_agent.py.
VARIABLES AGENTS, SESSIONS, last, given, called, par

vars == <<AGENTS, SESSIONS, last, given, called, par>>

-----------------------------------------------------------------------------
(* Python values *)

PyNone == [tag |-> "None", val |-> <<>>]

PyList(s) == [tag |-> "list", val |-> s]

\* a test for None only: [] passes it
IsNotNone(x) == x.tag = "list"

\* bool(x) of a list-or-None value: None and [] are falsy.
Truthy(x) == x.tag = "list" /\ Len(x.val) > 0

NoExc == [type |-> "None", msg |-> ""]

Exc(type, msg) == [type |-> type, msg |-> msg]

\* repr() of a list of str, as an f-string interpolates it.
RECURSIVE ReprItems(_)
ReprItems(s) ==
  IF Len(s) = 0 THEN ""
  ELSE IF Len(s) = 1 THEN "'" \o s[1] \o "'"
  ELSE "'" \o s[1] \o "', " \o ReprItems(Tail(s))

ListRepr(s) == "[" \o ReprItems(s) \o "]"

(* insertion-ordered dict *)

EmptyDict == <<>>

Keys(d) == {d[i].key : i \in 1..Len(d)}

KeyList(d) == [i \in 1..Len(d) |-> d[i].key]

Has(d, k) == \E i \in 1..Len(d) : d[i].key = k

Get(d, k) == d[CHOOSE i \in 1..Len(d) : d[i].key = k].value

\* a store that always adds an item
DictAdd(d, k, v) == Append(d, [key |-> k, value |-> v])

\* d[k] = v: a present key keeps its position, a new key goes last.
DictSet(d, k, v) ==
  IF Has(d, k)
  THEN [i \in 1..Len(d) |-> IF d[i].key = k THEN [key |-> k, value |-> v] ELSE d[i]]
  ELSE Append(d, [key |-> k, value |-> v])

(* keyword arguments *)

NoArgs == [k \in {} |-> ""]

Arg(arguments, key, default) ==
  IF key \in DOMAIN arguments THEN arguments[key] ELSE default

Drop(arguments, key) == [k \in DOMAIN arguments \ {key} |-> arguments[k]]

(* text content *)

\* json.dumps of a dict: the text is that JSON object.
JsonDumps(obj) == [type |-> "text", json |-> obj]

\* an f-string: the text is the string itself.
PlainText(s) == [type |-> "text", plain |-> s]

\* json.loads of a text, as the client applies it.  The only plain texts the
\* server produces start with "Error executing", which is not JSON.
JsonLoads(text) ==
  IF "json" \in DOMAIN text THEN [ok |-> TRUE, value |-> text.json]
  ELSE [ok |-> FALSE, value |-> NoArgs]

(* characters *)

LowerChar(c) ==
  CASE c = "A" -> "a"
    [] c = "H" -> "h"
    [] c = "I" -> "i"
    [] c = "T" -> "t"
    [] OTHER -> c

Lower(s) == [i \in 1..Len(s) |-> LowerChar(s[i])]

\* Python's `sub in s` on str.
Contains(sub, s) ==
  \E i \in 0..Len(s) : i + Len(sub) <= Len(s) /\ SubSeq(s, i + 1, i + Len(sub)) = sub

RECURSIVE Concat(_)
Concat(parts) == IF Len(parts) = 0 THEN <<>> ELSE Head(parts) \o Concat(Tail(parts))

(* outcome of a handler: the dicts after it, the exception it raised (NoExc  *)
(* when it returned), the list it returned, the framework calls it made.     *)

Returned(A, S, text, fw) ==
  [AGENTS |-> A, SESSIONS |-> S, exc |-> NoExc, content |-> <<text>>, fw |-> fw]

Raised(A, S, e, fw) ==
  [AGENTS |-> A, SESSIONS |-> S, exc |-> e, content |-> <<>>, fw |-> fw]

FwCall(call, target, session, user) ==
  [call |-> call, target |-> target, session |-> session, user |-> user]

-----------------------------------------------------------------------------
(* handle_list_tools: the declared tools and their input schemas *)

Tool(name, properties, required, defaults, additional) ==
  [name |-> name, properties |-> properties, required |-> required,
   defaults |-> defaults, additionalProperties |-> additional]

\* a listing that leaves the last tool out
handle_list_tools_short ==
  << Tool("create_adk_agent",
          {"name", "model", "instruction", "description", "tools"},
          {"name", "instruction"},
          [model |-> "gemini-2.0-flash", tools |-> PyList(<<>>)], TRUE),
     Tool("list_adk_agents", {}, {}, NoArgs, FALSE) >>

handle_list_tools ==
  << Tool("create_adk_agent",
          {"name", "model", "instruction", "description", "tools"},
          {"name", "instruction"},
          [model |-> "gemini-2.0-flash", tools |-> PyList(<<>>)], TRUE),
     Tool("list_adk_agents", {}, {}, NoArgs, FALSE),
     Tool("get_adk_agent_info", {"agent_name"}, {"agent_name"}, NoArgs, TRUE),
     Tool("run_adk_agent",
          {"agent_name", "message", "session_id", "user_id"},
          {"agent_name", "message"},
          [session_id |-> "default", user_id |-> "user"], TRUE),
     Tool("list_available_tools", {}, {}, NoArgs, FALSE),
     Tool("evaluate_adk_agent", {"agent_name", "test_cases"},
          {"agent_name", "test_cases"}, NoArgs, TRUE),
     Tool("create_multi_agent_system",
          {"coordinator_name", "coordinator_instruction", "sub_agents", "model"},
          {"coordinator_name", "coordinator_instruction", "sub_agents"},
          [model |-> "gemini-2.0-flash"], TRUE),
     Tool("add_mcp_tools_to_agent",
          {"agent_name", "mcp_server_command", "mcp_server_args", "tool_filter"},
          {"agent_name", "mcp_server_command", "mcp_server_args"},
          [tool_filter |-> PyList(<<>>)], TRUE),
     Tool("search_web", {"query", "num_results"}, {"query"},
          [num_results |-> 5], TRUE),
     Tool("load_webpage_content", {"url"}, {"url"}, NoArgs, TRUE),
     Tool("get_adk_documentation", {"topic"}, {"topic"}, NoArgs, TRUE),
     Tool("get_server_version", {}, {}, NoArgs, FALSE) >>

ToolNames(tools) == [i \in 1..Len(tools) |-> tools[i].name]

-----------------------------------------------------------------------------
(* The handlers' Python signatures.  A handler is called with the argument *)
(* dict unpacked as keywords, which raises TypeError when a parameter      *)
(* without default is missing or a keyword is not a parameter.             *)

Signature(handler) ==
  CASE handler = "create_adk_agent" ->
         [params |-> {"name", "instruction", "model", "description", "tools"},
          required |-> {"name", "instruction"}]
    [] handler = "list_adk_agents" -> [params |-> {}, required |-> {}]
    [] handler = "get_adk_agent_info" ->
         [params |-> {"agent_name"}, required |-> {"agent_name"}]
    [] handler = "run_adk_agent" ->
         [params |-> {"agent_name", "message", "session_id", "user_id"},
          required |-> {"agent_name", "message"}]
    [] handler = "list_available_tools" -> [params |-> {}, required |-> {}]
    [] handler = "evaluate_adk_agent" ->
         [params |-> {"agent_name", "test_cases"},
          required |-> {"agent_name", "test_cases"}]
    [] handler = "create_multi_agent_system" ->
         [params |-> {"coordinator_name", "coordinator_instruction", "sub_agents", "model"},
          required |-> {"coordinator_name", "coordinator_instruction", "sub_agents"}]
    [] handler = "add_mcp_tools_to_agent" ->
         [params |-> {"agent_name", "mcp_server_command", "mcp_server_args", "tool_filter"},
          required |-> {"agent_name", "mcp_server_command", "mcp_server_args"}]
    [] handler = "search_web" ->
         [params |-> {"query", "num_results"}, required |-> {"query"}]
    [] handler = "load_webpage_content" -> [params |-> {"url"}, required |-> {"url"}]
    [] handler = "get_adk_documentation" -> [params |-> {"topic"}, required |-> {"topic"}]
    [] OTHER -> [params |-> {}, required |-> {}]

\* a signature that takes any further keyword
BindsAnyKeyword(handler, arguments) ==
  Signature(handler).required \subseteq DOMAIN arguments

Binds(handler, arguments) ==
  /\ Signature(handler).required \subseteq DOMAIN arguments
  /\ DOMAIN arguments \subseteq Signature(handler).params

BindError(handler, arguments) ==
  IF ~(DOMAIN arguments \subseteq Signature(handler).params)
  THEN Exc("TypeError", handler \o "() got an unexpected keyword argument")
  ELSE Exc("TypeError", handler \o "() missing required positional argument")

-----------------------------------------------------------------------------
(* The framework, as far as the handlers see it.  An oracle gives the       *)
(* outcome of the guarded framework calls of one handler call:              *)
(*   runs[i]  for the i-th session-and-run (run_adk_agent has one,          *)
(*            evaluate_adk_agent one per test case): whether create_session *)
(*            returns, whether run_async completes, and the events it       *)
(*            yields, an event being the list of its parts' texts (empty:   *)
(*            an event without content);                                    *)
(*   ok       whether the one other guarded call (MCPToolset, a tool's      *)
(*            run_async) returns.                                           *)

FrameworkError == Exc("RuntimeError", "framework error")

LlmAgent(name, model, instruction, description, tools, sub_agents) ==
  [name |-> name, model |-> model, instruction |-> instruction,
   description |-> description, tools |-> tools, sub_agents |-> sub_agents]

MCPToolset(command, args, tool_filter) ==
  [kind |-> "MCPToolset", name |-> command, args |-> args, tool_filter |-> tool_filter]

\* SESSION_SERVICE.create_session: a new session, whose id no other session
\* has.  SESSIONS only grows, so the number after its size is unused in it.
create_session(S, offset, app_name, user_id) ==
  [id |-> Len(S) + offset, app_name |-> app_name, user_id |-> user_id]

\* The text the handlers collect from the events of a run: the texts of the
\* parts of the events that have content, concatenated.
RECURSIVE ResponseText(_)
ResponseText(events) ==
  IF Len(events) = 0 THEN <<>>
  ELSE Concat(Head(events)) \o ResponseText(Tail(events))

-----------------------------------------------------------------------------
(* create_adk_agent *)

available_tools ==
  [google_search |-> [kind |-> "GoogleSearchTool", name |-> "google_search"],
   load_web_page |-> [kind |-> "FunctionTool", name |-> "load_web_page"]]

\* for tool_name in tools: append the tool when the name is known, else warn.
RECURSIVE BuildAgentTools(_)
BuildAgentTools(tools) ==
  IF Len(tools) = 0 THEN <<>>
  ELSE (IF Head(tools) \in DOMAIN available_tools
        THEN <<available_tools[Head(tools)]>> ELSE <<>>)
       \o BuildAgentTools(Tail(tools))

\* a config that stores the description as the instruction
AgentConfigSwapped(name, model, instruction, description, tools) ==
  [name |-> name, model |-> model, instruction |-> description,
   description |-> instruction, tools |-> tools]

AgentConfig(name, model, instruction, description, tools) ==
  [name |-> name, model |-> model, instruction |-> instruction,
   description |-> description, tools |-> tools]

create_adk_agent(A, S, arguments, oracle) ==
  LET name == arguments.name
      instruction == arguments.instruction
      model == Arg(arguments, "model", "gemini-2.0-flash")
      description == Arg(arguments, "description", "")
      tools_in == Arg(arguments, "tools", PyNone)
      tools == IF tools_in = PyNone THEN PyList(<<>>) ELSE tools_in
      agent_tools == BuildAgentTools(tools.val)
      agent == LlmAgent(name, model, instruction, description, agent_tools, <<>>)
      entry == [agent |-> agent,
                config |-> AgentConfig(name, model, instruction, description, tools)]
      result == [status |-> "success",
                 message |-> "Successfully created agent '" \o name \o "'",
                 agent |-> [name |-> name, model |-> model,
                            description |-> description,
                            tools_count |-> Len(agent_tools)]]
  IN Returned(DictSet(A, name, entry), S, JsonDumps(result),
              <<FwCall("LlmAgent", name, 0, "")>>)

-----------------------------------------------------------------------------
(* list_adk_agents, get_adk_agent_info *)

\* config[k] for each k of keys in turn: the first key that is missing raises
\* KeyError, whose str() is the repr of the key.
MissingKeys(config, keys) == {i \in 1..Len(keys) : keys[i] \notin DOMAIN config}

FirstMissing(config, keys) ==
  keys[CHOOSE i \in MissingKeys(config, keys) :
         \A j \in MissingKeys(config, keys) : i <= j]

KeyError(key) == Exc("KeyError", "'" \o key \o "'")

ListedKeys == <<"model", "description", "tools">>

AgentListing(item) ==
  [name |-> item.key, model |-> item.value.config.model,
   description |-> item.value.config.description,
   tools |-> item.value.config.tools]

list_adk_agents(A, S, arguments, oracle) ==
  LET bad == {i \in 1..Len(A) : MissingKeys(A[i].value.config, ListedKeys) # {}}
  IN IF bad # {}
     THEN LET i == CHOOSE i \in bad : \A j \in bad : i <= j
          IN Raised(A, S, KeyError(FirstMissing(A[i].value.config, ListedKeys)), <<>>)
     ELSE LET agents_info == [i \in 1..Len(A) |-> AgentListing(A[i])]
              result == [status |-> "success", agents |-> agents_info,
                         total_count |-> Len(agents_info)]
          IN Returned(A, S, JsonDumps(result), <<>>)

\* a message that does not interpolate the name
AgentNotFoundUnnamed(agent_name) == JsonDumps([error |-> "Agent not found"])

AgentNotFound(agent_name) ==
  JsonDumps([error |-> "Agent '" \o agent_name \o "' not found"])

InfoKeys == <<"name", "model", "instruction", "description", "tools">>

get_adk_agent_info(A, S, arguments, oracle) ==
  LET agent_name == arguments.agent_name
  IN IF ~Has(A, agent_name)
     THEN Returned(A, S, AgentNotFound(agent_name), <<>>)
     ELSE LET config == Get(A, agent_name).config
          IN IF MissingKeys(config, InfoKeys) # {}
             THEN Raised(A, S, KeyError(FirstMissing(config, InfoKeys)), <<>>)
             ELSE Returned(A, S,
                    JsonDumps([status |-> "success",
                               agent |-> [name |-> config.name,
                                          model |-> config.model,
                                          instruction |-> config.instruction,
                                          description |-> config.description,
                                          tools |-> config.tools,
                                          created |-> TRUE]]),
                    <<>>)

-----------------------------------------------------------------------------
(* run_adk_agent *)

\* a lookup that never finds the session
SessionNeverStored(S, session_key) == FALSE

\* session_key in SESSIONS
SessionStored(S, session_key) == Has(S, session_key)

RunFailed == JsonDumps([error |-> "Failed to run agent: " \o FrameworkError.msg])

run_adk_agent(A, S, arguments, oracle) ==
  LET agent_name == arguments.agent_name
      message == arguments.message
      session_id == Arg(arguments, "session_id", "default")
      user_id == Arg(arguments, "user_id", "user")
      o == oracle.runs[1]
      app_name == "adk-mcp-" \o agent_name
      session_key == agent_name \o "_" \o session_id
      cached == SessionStored(S, session_key)
      created == create_session(S, 1, app_name, user_id)
      S1 == IF cached THEN S ELSE DictSet(S, session_key, created)
      session == IF cached THEN Get(S, session_key) ELSE created
      fw_session == IF cached THEN <<>>
                    ELSE <<FwCall("create_session", app_name, created.id, user_id)>>
      fw_run == <<FwCall("run_async", app_name, session.id, user_id)>>
      result == [status |-> "success",
                 agent_name |-> agent_name,
                 user_message |-> message,
                 agent_response |-> ResponseText(o.events),
                 session_id |-> session_id,
                 events_count |-> Len(o.events)]
  IN IF ~Has(A, agent_name)
     THEN Returned(A, S, AgentNotFound(agent_name), <<>>)
     ELSE IF ~cached /\ ~o.session_ok
     THEN Returned(A, S, RunFailed, <<FwCall("create_session", app_name, 0, user_id)>>)
     ELSE IF ~o.run_ok
     THEN Returned(A, S1, RunFailed, fw_session \o fw_run)
     ELSE Returned(A, S1, JsonDumps(result), fw_session \o fw_run)

-----------------------------------------------------------------------------
(* list_available_tools *)

listed_tools ==
  [google_search |-> [name |-> "google_search", type |-> "function_tool"],
   load_web_page |-> [name |-> "load_web_page", type |-> "function_tool"],
   agent_tool |-> [name |-> "agent_tool", type |-> "agent_tool"]]

list_available_tools(A, S, arguments, oracle) ==
  Returned(A, S,
           JsonDumps([status |-> "success",
                      available_tools |-> listed_tools,
                      total_count |-> Cardinality(DOMAIN listed_tools)]),
           <<>>)

-----------------------------------------------------------------------------
(* evaluate_adk_agent *)

\* One test case: the result entry appended, or the KeyError that leaves the
\* loop when the except clause itself reads a key the case does not have.
EvalCase(S, agent_name, i, test_case, o) ==
  LET app_name == "eval-" \o agent_name
      fw_session == <<FwCall("create_session", app_name,
                             IF o.session_ok THEN Len(S) + i ELSE 0, "evaluator")>>
      fw_run == <<FwCall("run_async", app_name, Len(S) + i, "evaluator")>>
      response_text == ResponseText(o.events)
      \* the try block, up to the first exception
      tried ==
        IF ~o.session_ok THEN [exc |-> FrameworkError, fw |-> fw_session]
        ELSE IF "input" \notin DOMAIN test_case
        THEN [exc |-> KeyError("input"), fw |-> fw_session]
        ELSE IF ~o.run_ok THEN [exc |-> FrameworkError, fw |-> fw_session \o fw_run]
        ELSE IF "expected_output" \notin DOMAIN test_case
        THEN [exc |-> KeyError("expected_output"), fw |-> fw_session \o fw_run]
        ELSE [exc |-> NoExc, fw |-> fw_session \o fw_run]
  IN IF tried.exc = NoExc
     THEN [exc |-> NoExc, fw |-> tried.fw,
           entry |-> [test_case |-> i,
                      input |-> test_case.input,
                      expected |-> test_case.expected_output,
                      actual |-> [error |-> "", text |-> response_text],
                      passed |-> Contains(Lower(test_case.expected_output),
                                          Lower(response_text))]]
     ELSE IF MissingKeys(test_case, <<"input", "expected_output">>) # {}
     THEN [exc |-> KeyError(FirstMissing(test_case, <<"input", "expected_output">>)),
           fw |-> tried.fw, entry |-> NoArgs]
     ELSE [exc |-> NoExc, fw |-> tried.fw,
           entry |-> [test_case |-> i,
                      input |-> test_case.input,
                      expected |-> test_case.expected_output,
                      actual |-> [error |-> "Error: " \o tried.exc.msg, text |-> <<>>],
                      passed |-> FALSE]]

\* for i, test_case in enumerate(test_cases): acc is [results, fw, exc].
RECURSIVE EvalLoop(_, _, _, _, _, _)
EvalLoop(S, agent_name, test_cases, oracle, i, acc) ==
  IF i > Len(test_cases) \/ acc.exc # NoExc THEN acc
  ELSE LET c == EvalCase(S, agent_name, i, test_cases[i], oracle.runs[i])
       IN EvalLoop(S, agent_name, test_cases, oracle, i + 1,
                   [results |-> IF c.exc = NoExc THEN Append(acc.results, c.entry)
                                ELSE acc.results,
                    fw |-> acc.fw \o c.fw,
                    exc |-> c.exc])

PassedCount(results) == Cardinality({i \in 1..Len(results) : results[i].passed})

\* passed_count / len(test_cases) if test_cases else 0, as a fraction.
SuccessRate(passed_count, test_cases) ==
  IF Len(test_cases) > 0 THEN [num |-> passed_count, den |-> Len(test_cases)]
  ELSE [num |-> 0, den |-> 1]

evaluate_adk_agent(A, S, arguments, oracle) ==
  LET agent_name == arguments.agent_name
      test_cases == arguments.test_cases
      loop == EvalLoop(S, agent_name, test_cases, oracle, 1,
                       [results |-> <<>>, fw |-> <<>>, exc |-> NoExc])
      passed_count == PassedCount(loop.results)
      evaluation_result == [status |-> "success",
                            agent_name |-> agent_name,
                            total_tests |-> Len(test_cases),
                            passed_tests |-> passed_count,
                            success_rate |-> SuccessRate(passed_count, test_cases),
                            results |-> loop.results]
  IN IF ~Has(A, agent_name)
     THEN Returned(A, S, AgentNotFound(agent_name), <<>>)
     ELSE IF loop.exc # NoExc
     THEN Raised(A, S, loop.exc, loop.fw)
     ELSE Returned(A, S, JsonDumps(evaluation_result), loop.fw)

-----------------------------------------------------------------------------
(* create_multi_agent_system *)

\* a check that stops at the first missing name
missing_agents_first(A, sub_agents) ==
  LET missing == SelectSeq(sub_agents, LAMBDA n : ~Has(A, n))
  IN IF Len(missing) = 0 THEN missing ELSE <<missing[1]>>

\* [name for name in sub_agents if name not in AGENTS]
missing_agents(A, sub_agents) == SelectSeq(sub_agents, LAMBDA n : ~Has(A, n))

CoordinatorConfig(coordinator_name, model, coordinator_instruction, sub_agents) ==
  [name |-> coordinator_name,
   model |-> model,
   instruction |-> coordinator_instruction,
   description |-> "Multi-agent coordinator with " \o ToString(Len(sub_agents))
                   \o " sub-agents",
   sub_agents |-> sub_agents,
   type |-> "multi_agent_coordinator"]

create_multi_agent_system(A, S, arguments, oracle) ==
  LET coordinator_name == arguments.coordinator_name
      coordinator_instruction == arguments.coordinator_instruction
      sub_agents == arguments.sub_agents
      model == Arg(arguments, "model", "gemini-2.0-flash")
      missing == missing_agents(A, sub_agents)
      \* the sub-agent instances are held by reference: kept here by name
      coordinator == LlmAgent(coordinator_name, model, coordinator_instruction,
                              "Coordinator agent managing "
                                \o ToString(Len(sub_agents)) \o " sub-agents",
                              <<>>, sub_agents)
      entry == [agent |-> coordinator,
                config |-> CoordinatorConfig(coordinator_name, model,
                                             coordinator_instruction, sub_agents)]
      result == [status |-> "success",
                 message |-> "Successfully created multi-agent system '"
                             \o coordinator_name \o "'",
                 coordinator |-> [name |-> coordinator_name,
                                  model |-> model,
                                  sub_agents |-> sub_agents,
                                  sub_agent_count |-> Len(sub_agents)]]
  IN IF Len(missing) > 0
     THEN Returned(A, S,
                   JsonDumps([error |-> "Missing sub-agents: " \o ListRepr(missing)
                                        \o ". Create them first."]),
                   <<>>)
     ELSE Returned(DictSet(A, coordinator_name, entry), S, JsonDumps(result),
                   <<FwCall("LlmAgent", coordinator_name, 0, "")>>)

-----------------------------------------------------------------------------
(* add_mcp_tools_to_agent *)

\* config["mcp_tools"] = value
WithMcpTools(config, value) ==
  [k \in DOMAIN config \cup {"mcp_tools"} |->
     IF k = "mcp_tools" THEN value ELSE config[k]]

add_mcp_tools_to_agent(A, S, arguments, oracle) ==
  LET agent_name == arguments.agent_name
      mcp_server_command == arguments.mcp_server_command
      mcp_server_args == arguments.mcp_server_args
      tool_filter == Arg(arguments, "tool_filter", PyNone)
      mcp_toolset == MCPToolset(mcp_server_command, mcp_server_args,
                                IF Truthy(tool_filter) THEN tool_filter ELSE PyNone)
      agent_data == Get(A, agent_name)
      agent == agent_data.agent
      mcp_server == [command |-> mcp_server_command,
                     args |-> mcp_server_args,
                     filter |-> tool_filter]
      updated == [agent |-> [agent EXCEPT !.tools = Append(agent.tools, mcp_toolset)],
                  config |-> WithMcpTools(agent_data.config, mcp_server)]
      result == [status |-> "success",
                 message |-> "Successfully added MCP tools to agent '"
                             \o agent_name \o "'",
                 mcp_server |-> mcp_server]
      fw == <<FwCall("MCPToolset", agent_name, 0, "")>>
  IN IF ~Has(A, agent_name)
     THEN Returned(A, S, AgentNotFound(agent_name), <<>>)
     ELSE IF ~oracle.ok
     THEN Returned(A, S,
                   JsonDumps([error |-> "Failed to add MCP tools: "
                                        \o FrameworkError.msg]),
                   fw)
     ELSE Returned(DictSet(A, agent_name, updated), S, JsonDumps(result), fw)

-----------------------------------------------------------------------------
(* search_web, load_webpage_content *)

search_web(A, S, arguments, oracle) ==
  LET query == arguments.query
      num_results == Arg(arguments, "num_results", 5)
      fw == <<FwCall("google_search.run_async", query, num_results, "")>>
  IN IF ~oracle.ok
     THEN Returned(A, S,
                   JsonDumps([error |-> "Search failed: " \o FrameworkError.msg]), fw)
     ELSE Returned(A, S, JsonDumps([framework_result |-> "google_search"]), fw)

load_webpage_content(A, S, arguments, oracle) ==
  LET url == arguments.url
      fw == <<FwCall("load_web_page.run_async", url, 0, "")>>
  IN IF ~oracle.ok
     THEN Returned(A, S,
                   JsonDumps([error |-> "Failed to load webpage: "
                                        \o FrameworkError.msg]), fw)
     ELSE Returned(A, S, JsonDumps([framework_result |-> "load_web_page"]), fw)

-----------------------------------------------------------------------------
(* get_adk_documentation, get_server_version *)

docs ==
  << <<"a", "g", "e", "n", "t", "s">>,
     <<"t", "o", "o", "l", "s">>,
     <<"d", "e", "p", "l", "o", "y", "m", "e", "n", "t">>,
     <<"e", "v", "a", "l", "u", "a", "t", "i", "o", "n">> >>

get_adk_documentation(A, S, arguments, oracle) ==
  LET topic == arguments.topic
      found == \E i \in 1..Len(docs) : docs[i] = Lower(topic)
      result == IF found
                THEN [status |-> "success", topic |-> topic,
                      documentation |-> [section |-> Lower(topic)]]
                ELSE [status |-> "success", available_topics |-> docs,
                      message |-> [template |-> "Topic '{topic}' not found. Available topics listed above.",
                                   topic |-> topic]]
  IN Returned(A, S, JsonDumps(result), <<>>)

get_server_version(A, S, arguments, oracle) ==
  Returned(A, S,
           JsonDumps([status |-> "success",
                      server_name |-> "Google ADK MCP Server",
                      version |-> "1.0.0",
                      version_info |-> [major |-> 1, minor |-> 0, patch |-> 0,
                                        prerelease |-> PyNone, build |-> PyNone],
                      mcp_protocol |-> "1.0"]),
           <<>>)

-----------------------------------------------------------------------------
(* handle_call_tool *)

\* handler(**arguments): TypeError when the arguments do not fit the signature
Call(handler, body, A, S, arguments) ==
  LET named(r) == [AGENTS |-> r.AGENTS, SESSIONS |-> r.SESSIONS, exc |-> r.exc,
                   content |-> r.content, fw |-> r.fw, handler |-> handler]
  IN named(IF Binds(handler, arguments) THEN body
           ELSE Raised(A, S, BindError(handler, arguments), <<>>))

UnknownTool(A, S, name) ==
  [AGENTS |-> A, SESSIONS |-> S, exc |-> Exc("ValueError", "Unknown tool: " \o name),
   content |-> <<>>, fw |-> <<>>, handler |-> "none"]

\* a chain that lacks its last elif
DispatchLastMissing(A, S, name, arguments, oracle) == UnknownTool(A, S, name)

\* the last elif of the chain, and its else
DispatchLast(A, S, name, arguments, oracle) ==
  IF name = "get_server_version"
  THEN Call("get_server_version", get_server_version(A, S, arguments, oracle), A, S, arguments)
  ELSE UnknownTool(A, S, name)

\* the if/elif chain inside the try
Dispatch(A, S, name, arguments, oracle) ==
  IF name = "create_adk_agent"
  THEN Call("create_adk_agent", create_adk_agent(A, S, arguments, oracle), A, S, arguments)
  ELSE IF name = "list_adk_agents"
  THEN Call("list_adk_agents", list_adk_agents(A, S, arguments, oracle), A, S, arguments)
  ELSE IF name = "get_adk_agent_info"
  THEN Call("get_adk_agent_info", get_adk_agent_info(A, S, arguments, oracle), A, S, arguments)
  ELSE IF name = "run_adk_agent"
  THEN Call("run_adk_agent", run_adk_agent(A, S, arguments, oracle), A, S, arguments)
  ELSE IF name = "list_available_tools"
  THEN Call("list_available_tools", list_available_tools(A, S, arguments, oracle), A, S, arguments)
  ELSE IF name = "evaluate_adk_agent"
  THEN Call("evaluate_adk_agent", evaluate_adk_agent(A, S, arguments, oracle), A, S, arguments)
  ELSE IF name = "create_multi_agent_system"
  THEN Call("create_multi_agent_system", create_multi_agent_system(A, S, arguments, oracle), A, S, arguments)
  ELSE IF name = "add_mcp_tools_to_agent"
  THEN Call("add_mcp_tools_to_agent", add_mcp_tools_to_agent(A, S, arguments, oracle), A, S, arguments)
  ELSE IF name = "search_web"
  THEN Call("search_web", search_web(A, S, arguments, oracle), A, S, arguments)
  ELSE IF name = "load_webpage_content"
  THEN Call("load_webpage_content", load_webpage_content(A, S, arguments, oracle), A, S, arguments)
  ELSE IF name = "get_adk_documentation"
  THEN Call("get_adk_documentation", get_adk_documentation(A, S, arguments, oracle), A, S, arguments)
  ELSE DispatchLast(A, S, name, arguments, oracle)

\* except Exception as e: the one text "Error executing {name}: {str(e)}".
\* `caught` is the exception the except clause handled, `exc` the one that
\* leaves handle_call_tool.
handle_call_tool(A, S, name, arguments, oracle) ==
  LET try(r) ==
        IF r.exc = NoExc
        THEN [AGENTS |-> r.AGENTS, SESSIONS |-> r.SESSIONS, handler |-> r.handler,
              caught |-> NoExc, exc |-> NoExc, content |-> r.content, fw |-> r.fw]
        ELSE [AGENTS |-> r.AGENTS, SESSIONS |-> r.SESSIONS, handler |-> r.handler,
              caught |-> r.exc, exc |-> NoExc,
              content |-> <<PlainText("Error executing " \o name \o ": " \o r.exc.msg)>>,
              fw |-> r.fw]
  IN try(Dispatch(A, S, name, arguments, oracle))

-----------------------------------------------------------------------------
(* Bounds and the inputs of the model *)

\* test cases in one evaluate_adk_agent call
MaxCases == 2

\* names in one sub_agents list
MaxSubAgents == 2

\* MCP toolsets attached to the agents of the registry at any one time
MaxToolsets == 1

AgentNames == {"a", "a_b"}

\* a name no create call uses
LookupNames == AgentNames \cup {"zz"}

\* coordinators are created under one name, over the other names
CoordinatorNames == {"a"}

SubAgentNames == {"a_b", "zz"}

\* the agents the model runs and evaluates
RunNames == {"a", "zz"}

Models == {"gemini-2.0-flash", "gemini-1.5-pro"}

\* the optional parameters of create_adk_agent: none, a declared default
\* passed explicitly, or values other than the defaults
CreateOptions ==
  { NoArgs,
    [model |-> "gemini-2.0-flash"],
    [tools |-> PyList(<<>>)],
    [description |-> "d1"],
    [model |-> "gemini-1.5-pro", description |-> "d1",
     tools |-> PyList(<<"google_search", "agent_tool", "load_web_page">>)] }

ToolFilters == {PyList(<<>>), PyList(<<"t1">>)}

TextHi == <<"H", "i">>

TestCases ==
  { [input |-> "q1", expected_output |-> <<"h", "I">>],
    [expected_output |-> <<"h", "I">>] }

TopicInputs == { <<"T", "o", "o", "l", "s">>, <<"a", "g", "e", "n", "t", "s">>, <<"x">> }

UnknownNames == {"delete_adk_agent", "get_version"}

SeqsUpTo(S, n) == UNION {[1..k -> S] : k \in 0..n}

\* an optional parameter: left out, or one of the values
Opt(key, values) == {NoArgs} \cup {key :> v : v \in values}

RunOracles ==
  { [session_ok |-> FALSE, run_ok |-> FALSE, events |-> <<>>],
    [session_ok |-> TRUE, run_ok |-> FALSE, events |-> <<>>],
    [session_ok |-> TRUE, run_ok |-> TRUE, events |-> <<>>],
    [session_ok |-> TRUE, run_ok |-> TRUE, events |-> << <<>>, <<TextHi>> >>] }

EvalOracles ==
  { [session_ok |-> TRUE, run_ok |-> FALSE, events |-> <<>>],
    [session_ok |-> TRUE, run_ok |-> TRUE, events |-> << <<TextHi>> >>] }

NoOracle == [runs |-> <<>>, ok |-> TRUE]

OkOracles == {[runs |-> <<>>, ok |-> b] : b \in BOOLEAN}

\* arguments that fit neither schema nor signature, made from fitting ones:
\* one required parameter left out, or one undeclared parameter added
Unfit(name, args) ==
  {Drop(a, k) : a \in args, k \in Signature(name).required}
    \cup {a @@ ("verbose" :> "yes") : a \in args}

CreateArgs ==
  {[name |-> n, instruction |-> "i1"] @@ o : n \in AgentNames, o \in CreateOptions}

InfoArgs == {[agent_name |-> n] : n \in LookupNames}

RunArgs ==
  {[agent_name |-> n, message |-> "m1"] @@ s @@ u :
     n \in RunNames, s \in Opt("session_id", {"default"}),
     u \in Opt("user_id", {"user"})}

EvalArgs ==
  {[agent_name |-> n, test_cases |-> t] :
     n \in RunNames, t \in SeqsUpTo(TestCases, MaxCases)}

MultiArgs ==
  {[coordinator_name |-> n, coordinator_instruction |-> "ci", sub_agents |-> l] @@ m :
     n \in CoordinatorNames, l \in SeqsUpTo(SubAgentNames, MaxSubAgents),
     m \in Opt("model", Models)}

McpArgs ==
  {[agent_name |-> n, mcp_server_command |-> "npx", mcp_server_args |-> <<"-y">>] @@ f :
     n \in LookupNames, f \in Opt("tool_filter", ToolFilters)}

SearchArgs == {[query |-> "q"] @@ k : k \in Opt("num_results", {5, 3})}

LoadArgs == {[url |-> "u"]}

DocArgs == {[topic |-> t] : t \in TopicInputs}

\* The argument dicts each action draws from: the fitting ones of above and,
\* from one fitting dict of each tool, the unfitting ones.
Inputs ==
  [create_adk_agent |-> CreateArgs
      \cup Unfit("create_adk_agent", {[name |-> "a", instruction |-> "i1"]}),
   list_adk_agents |-> {NoArgs} \cup Unfit("list_adk_agents", {NoArgs}),
   get_adk_agent_info |-> InfoArgs
      \cup Unfit("get_adk_agent_info", {[agent_name |-> "a"]}),
   run_adk_agent |-> RunArgs
      \cup Unfit("run_adk_agent", {[agent_name |-> "a", message |-> "m1"]}),
   list_available_tools |-> {NoArgs} \cup Unfit("list_available_tools", {NoArgs}),
   evaluate_adk_agent |-> EvalArgs
      \cup Unfit("evaluate_adk_agent", {[agent_name |-> "a", test_cases |-> <<>>]}),
   create_multi_agent_system |-> MultiArgs
      \cup Unfit("create_multi_agent_system",
                 {[coordinator_name |-> "a", coordinator_instruction |-> "ci",
                   sub_agents |-> <<>>]}),
   add_mcp_tools_to_agent |-> McpArgs
      \cup Unfit("add_mcp_tools_to_agent",
                 {[agent_name |-> "a", mcp_server_command |-> "npx",
                   mcp_server_args |-> <<"-y">>]}),
   search_web |-> SearchArgs \cup Unfit("search_web", {[query |-> "q"]}),
   load_webpage_content |-> LoadArgs \cup Unfit("load_webpage_content", LoadArgs),
   get_adk_documentation |-> DocArgs
      \cup Unfit("get_adk_documentation", {[topic |-> <<"x">>]}),
   get_server_version |-> {NoArgs} \cup Unfit("get_server_version", {NoArgs}),
   unknown |-> {NoArgs, [agent_name |-> "a"]}]

-----------------------------------------------------------------------------
(* The state machine *)

\* `last` is the request being answered: which it was, what it was given,
\* what comes back, and the framework calls made on the way.  Requests are
\* handled one at a time: the answer is delivered before the next is taken.
NoRequest ==
  [kind |-> "none", name |-> "", arguments |-> NoArgs, handler |-> "none",
   caught |-> NoExc, exc |-> NoExc, content |-> <<>>, fw |-> <<>>, listing |-> <<>>]

\* no parallel agent is running in the server process
NoParallelRun == [phase |-> "idle", parent |-> "", sub_agents |-> <<>>, now |-> 0,
                  pc |-> <<>>, events |-> <<>>]

Init ==
  /\ AGENTS = EmptyDict
  /\ SESSIONS = EmptyDict
  /\ last = NoRequest
  /\ given = NoArgs
  /\ called = NoArgs
  /\ par = NoParallelRun

ToolsetCount(A) ==
  LET n(i) == Cardinality({j \in 1..Len(A[i].value.agent.tools) :
                             A[i].value.agent.tools[j].kind = "MCPToolset"})
      sum[i \in 0..Len(A)] == IF i = 0 THEN 0 ELSE sum[i - 1] + n(i)
  IN sum[Len(A)]

Succeeded(content) ==
  /\ Len(content) = 1
  /\ JsonLoads(content[1]).ok
  /\ "status" \in DOMAIN JsonLoads(content[1]).value
  /\ JsonLoads(content[1]).value.status = "success"

\* What a successful create_adk_agent was given, per agent name, with the
\* declared defaults for what it was not given; forgotten when a
\* create_multi_agent_system succeeds under the name.  A history variable:
\* no handler reads it.
GivenToCreate(arguments) ==
  [name |-> arguments.name,
   model |-> IF "model" \in DOMAIN arguments THEN arguments.model
             ELSE "gemini-2.0-flash",
   instruction |-> arguments.instruction,
   description |-> IF "description" \in DOMAIN arguments THEN arguments.description
                   ELSE "",
   tools |-> IF "tools" \in DOMAIN arguments THEN arguments.tools ELSE PyList(<<>>)]

Remember(name, arguments, content) ==
  IF name = "create_adk_agent" /\ Succeeded(content)
  THEN [n \in DOMAIN given \cup {arguments.name} |->
          IF n = arguments.name THEN GivenToCreate(arguments) ELSE given[n]]
  ELSE IF name = "create_multi_agent_system" /\ Succeeded(content)
  THEN [n \in DOMAIN given \ {arguments.coordinator_name} |-> given[n]]
  ELSE given

\* The run_adk_agent calls made on registered agents, per agent_name and
\* session_id: the framework session the first of them to have one ran on,
\* or 0 while none of them had one.  A history variable: no handler reads it.
RunPair(arguments) ==
  <<arguments.agent_name, Arg(arguments, "session_id", "default")>>

RanOn(fw) ==
  LET runs == SelectSeq(fw, LAMBDA c : c.call = "run_async")
  IN IF Len(runs) = 0 THEN 0 ELSE runs[1].session

Record(name, arguments, r) ==
  IF name = "run_adk_agent" /\ Binds(name, arguments)
     /\ Has(AGENTS, arguments.agent_name)
  THEN IF RunPair(arguments) \in DOMAIN called /\ called[RunPair(arguments)] # 0
       THEN called
       ELSE (RunPair(arguments) :> RanOn(r.fw)) @@ called
  ELSE called

\* no request is being answered
Idle == last.kind = "none"

\* one call_tool request, answered with r
Step(name, arguments, r) ==
  /\ ToolsetCount(r.AGENTS) <= MaxToolsets
  /\ AGENTS' = r.AGENTS
  /\ SESSIONS' = r.SESSIONS
  /\ last' = [kind |-> "call_tool", name |-> name, arguments |-> arguments,
              handler |-> r.handler, caught |-> r.caught, exc |-> r.exc,
              content |-> r.content, fw |-> r.fw, listing |-> <<>>]
  /\ given' = Remember(name, arguments, r.content)
  /\ called' = Record(name, arguments, r)
  /\ UNCHANGED par

HandleListTools ==
  /\ Idle
  /\ last' = [NoRequest EXCEPT !.kind = "list_tools",
                               !.listing = ToolNames(handle_list_tools)]
  /\ UNCHANGED <<AGENTS, SESSIONS, given, called, par>>

CreateAdkAgent(U) ==
  /\ Idle
  /\ \E arguments \in U.create_adk_agent :
       \E r \in {handle_call_tool(AGENTS, SESSIONS, "create_adk_agent", arguments, NoOracle)} :
         Step("create_adk_agent", arguments, r)

ListAdkAgents(U) ==
  /\ Idle
  /\ \E arguments \in U.list_adk_agents :
       \E r \in {handle_call_tool(AGENTS, SESSIONS, "list_adk_agents", arguments, NoOracle)} :
         Step("list_adk_agents", arguments, r)

GetAdkAgentInfo(U) ==
  /\ Idle
  /\ \E arguments \in U.get_adk_agent_info :
       \E r \in {handle_call_tool(AGENTS, SESSIONS, "get_adk_agent_info", arguments, NoOracle)} :
         Step("get_adk_agent_info", arguments, r)

RunAdkAgent(U) ==
  /\ Idle
  /\ \E arguments \in U.run_adk_agent : \E o \in RunOracles :
       \E r \in {handle_call_tool(AGENTS, SESSIONS, "run_adk_agent", arguments,
                                  [runs |-> <<o>>, ok |-> TRUE])} :
         Step("run_adk_agent", arguments, r)

ListAvailableTools(U) ==
  /\ Idle
  /\ \E arguments \in U.list_available_tools :
       \E r \in {handle_call_tool(AGENTS, SESSIONS, "list_available_tools", arguments, NoOracle)} :
         Step("list_available_tools", arguments, r)

CaseCount(arguments) ==
  IF "test_cases" \in DOMAIN arguments THEN Len(arguments.test_cases) ELSE 0

EvaluateAdkAgent(U) ==
  /\ Idle
  /\ \E arguments \in U.evaluate_adk_agent :
       \E runs \in [1..CaseCount(arguments) -> EvalOracles] :
         \E r \in {handle_call_tool(AGENTS, SESSIONS, "evaluate_adk_agent", arguments,
                                    [runs |-> runs, ok |-> TRUE])} :
           Step("evaluate_adk_agent", arguments, r)

CreateMultiAgentSystem(U) ==
  /\ Idle
  /\ \E arguments \in U.create_multi_agent_system :
       \E r \in {handle_call_tool(AGENTS, SESSIONS, "create_multi_agent_system", arguments,
                                  NoOracle)} :
         Step("create_multi_agent_system", arguments, r)

AddMcpToolsToAgent(U) ==
  /\ Idle
  /\ \E arguments \in U.add_mcp_tools_to_agent : \E oracle \in OkOracles :
       \E r \in {handle_call_tool(AGENTS, SESSIONS, "add_mcp_tools_to_agent", arguments, oracle)} :
         Step("add_mcp_tools_to_agent", arguments, r)

SearchWeb(U) ==
  /\ Idle
  /\ \E arguments \in U.search_web : \E oracle \in OkOracles :
       \E r \in {handle_call_tool(AGENTS, SESSIONS, "search_web", arguments, oracle)} :
         Step("search_web", arguments, r)

LoadWebpageContent(U) ==
  /\ Idle
  /\ \E arguments \in U.load_webpage_content : \E oracle \in OkOracles :
       \E r \in {handle_call_tool(AGENTS, SESSIONS, "load_webpage_content", arguments, oracle)} :
         Step("load_webpage_content", arguments, r)

GetAdkDocumentation(U) ==
  /\ Idle
  /\ \E arguments \in U.get_adk_documentation :
       \E r \in {handle_call_tool(AGENTS, SESSIONS, "get_adk_documentation", arguments, NoOracle)} :
         Step("get_adk_documentation", arguments, r)

GetServerVersion(U) ==
  /\ Idle
  /\ \E arguments \in U.get_server_version :
       \E r \in {handle_call_tool(AGENTS, SESSIONS, "get_server_version", arguments, NoOracle)} :
         Step("get_server_version", arguments, r)

CallUnknownTool(U) ==
  /\ Idle
  /\ \E name \in UnknownNames : \E arguments \in U.unknown :
       \E r \in {handle_call_tool(AGENTS, SESSIONS, name, arguments, NoOracle)} :
         Step(name, arguments, r)

\* the answer goes back to the client
Deliver ==
  /\ last.kind # "none"
  /\ last' = NoRequest
  /\ UNCHANGED <<AGENTS, SESSIONS, given, called, par>>

Next ==
  \/ HandleListTools
  \/ Deliver
  \/ CreateAdkAgent(Inputs)
  \/ ListAdkAgents(Inputs)
  \/ GetAdkAgentInfo(Inputs)
  \/ RunAdkAgent(Inputs)
  \/ ListAvailableTools(Inputs)
  \/ EvaluateAdkAgent(Inputs)
  \/ CreateMultiAgentSystem(Inputs)
  \/ AddMcpToolsToAgent(Inputs)
  \/ SearchWeb(Inputs)
  \/ LoadWebpageContent(Inputs)
  \/ GetAdkDocumentation(Inputs)
  \/ GetServerVersion(Inputs)
  \/ CallUnknownTool(Inputs)

Spec == Init /\ [][Next]_vars

\* The server under create and run requests only, over more sessions: two
\* agents, session ids left out and given, two users, and two calls whose
\* agent_name and session_id differ but whose session keys are the same.
SessionRunArgs ==
  { [agent_name |-> "a", message |-> "m1"],
    [agent_name |-> "a", message |-> "m1", user_id |-> "u2"],
    [agent_name |-> "a", message |-> "m1", session_id |-> "b_c"],
    [agent_name |-> "a_b", message |-> "m1", session_id |-> "c"],
    [agent_name |-> "a_b", message |-> "m1"] }

SessionInputs ==
  [create_adk_agent |-> {[name |-> n, instruction |-> "i1"] : n \in AgentNames},
   run_adk_agent |-> SessionRunArgs]

NextSessions ==
  \/ Deliver
  \/ CreateAdkAgent(SessionInputs)
  \/ RunAdkAgent(SessionInputs)

SpecSessions == Init /\ [][NextSessions]_vars

-----------------------------------------------------------------------------
(* The parallel agent test.  _TestingAgent and the test are source; the    *)
(* ParallelAgent they exercise is not part of src/ and is modelled from    *)
(* the specification: the sub-agents run as concurrent branches, each      *)
(* under a branch of its own that ends with its name, and the parallel     *)
(* agent yields their events in the order they complete.  `par` is one     *)
(* run: the sub-agents with their delays, the event loop's clock, where    *)
(* each branch is, and the events yielded so far, each with the index of   *)
(* the branch that produced it.                                            *)

\* sub-agents of one parallel agent
MaxBranches == 3

\* longest delay of a sub-agent, in ticks of the event loop's clock
MaxDelay == 2

TestName == "test_run_async"

\* _TestingAgent(name=f'{request.function.__name__}_test_agent_{i}', delay=d)
TestingAgent(i, delay) ==
  [name |-> TestName \o "_test_agent_" \o ToString(i), delay |-> delay]

\* a sleep that returns at once whatever the delay
SleepIgnoresDelay(delay, now) == TRUE

\* await asyncio.sleep(self.delay) has returned
SleepOver(delay, now) == now >= delay

\* an event whose author is the agent of the invocation context
EventOfParent(self, ctx) ==
  [author |-> ctx.agent, branch |-> ctx.branch, invocation_id |-> ctx.invocation_id,
   content |-> <<"Hello, async " \o self.name \o "!">>]

\* the one event of _run_async_impl
TestingAgentEvent(self, ctx) ==
  [author |-> self.name, branch |-> ctx.branch, invocation_id |-> ctx.invocation_id,
   content |-> <<"Hello, async " \o self.name \o "!">>]

\* the invocation context the parallel agent hands to a sub-agent
BranchContext(parent, sub_agent) ==
  [agent |-> parent, branch |-> (parent \o ".") \o sub_agent.name,
   invocation_id |-> TestName \o "_invocation_id"]

ParallelAgent(name, sub_agents) ==
  [phase |-> "running", parent |-> name, sub_agents |-> sub_agents, now |-> 0,
   pc |-> [i \in 1..Len(sub_agents) |-> "sleeping"], events |-> <<>>]

ParallelInputs ==
  UNION {{[i \in 1..n |-> TestingAgent(i, d[i])] : d \in [1..n -> 0..MaxDelay]} :
           n \in 1..MaxBranches}

InitParallel ==
  /\ AGENTS = EmptyDict
  /\ SESSIONS = EmptyDict
  /\ last = NoRequest
  /\ given = NoArgs
  /\ called = NoArgs
  /\ par \in {ParallelAgent(TestName \o "_test_parallel_agent", subs) :
                subs \in ParallelInputs}

server == <<AGENTS, SESSIONS, last, given, called>>

CanEmit(i) ==
  /\ par.pc[i] = "sleeping"
  /\ SleepOver(par.sub_agents[i].delay, par.now)

\* a branch whose sleep is over yields its event, which the parallel agent
\* yields in turn
Emit ==
  /\ par.phase = "running"
  /\ \E i \in 1..Len(par.sub_agents) :
       /\ CanEmit(i)
       /\ par' = [par EXCEPT
                    !.pc[i] = "done",
                    !.events = Append(@, [by |-> i,
                                          event |-> TestingAgentEvent(
                                            par.sub_agents[i],
                                            BranchContext(par.parent, par.sub_agents[i]))])]
  /\ UNCHANGED server

\* the event loop has nothing to run: its clock moves on
Tick ==
  /\ par.phase = "running"
  /\ \E i \in 1..Len(par.sub_agents) : par.pc[i] = "sleeping"
  /\ \A i \in 1..Len(par.sub_agents) : ~CanEmit(i)
  /\ par' = [par EXCEPT !.now = @ + 1]
  /\ UNCHANGED server

\* every branch is done: run_async is exhausted
Finish ==
  /\ par.phase = "running"
  /\ \A i \in 1..Len(par.sub_agents) : par.pc[i] = "done"
  /\ par' = [par EXCEPT !.phase = "done"]
  /\ UNCHANGED server

NextParallel == Emit \/ Tick \/ Finish

SpecParallel == InitParallel /\ [][NextParallel]_vars

\* the event loop runs whatever can run
SpecParallelFair == SpecParallel /\ WF_vars(NextParallel)

-----------------------------------------------------------------------------
(* What the properties speak of *)

ListedNames == {handle_list_tools[i].name : i \in 1..Len(handle_list_tools)}

SchemaOf(name) ==
  handle_list_tools[CHOOSE i \in 1..Len(handle_list_tools) :
                      handle_list_tools[i].name = name]

\* every required parameter is given and every given parameter is declared
FitsSchema(name, arguments) ==
  /\ SchemaOf(name).required \subseteq DOMAIN arguments
  /\ DOMAIN arguments \subseteq SchemaOf(name).properties

Called(name) == last.kind = "call_tool" /\ last.name = name

\* the answer is one text that json.loads reads as an object
AnswersJson(l) == Len(l.content) = 1 /\ JsonLoads(l.content[1]).ok

Answer(l) == JsonLoads(l.content[1]).value

AnswersError(l) == AnswersJson(l) /\ "error" \in DOMAIN Answer(l)

AnswersSuccess(l) == Succeeded(l.content)

-----------------------------------------------------------------------------
(* C1: handle_call_tool never raises, and whenever a call fails at the call  *)
(* boundary (unknown name, arguments the handler does not take, an exception *)
(* leaving the handler) its one text is a JSON object carrying the error.    *)

C1_FailuresAnswerJsonErrors ==
  last.kind = "call_tool" =>
    /\ last.exc = NoExc
    /\ Len(last.content) = 1
    /\ last.caught # NoExc => AnswersError(last)

(* C2: a listed tool called with arguments that fit its declared schema      *)
(* answers exactly one text that parses as a JSON object.                    *)

C2_FittingCallsAnswerJson ==
  (last.kind = "call_tool" /\ last.name \in ListedNames
     /\ FitsSchema(last.name, last.arguments))
    => AnswersJson(last)

(* C3: list_adk_agents answers success with exactly one entry per name in    *)
(* AGENTS, agents and coordinators alike, and total_count the number of      *)
(* registry entries.                                                         *)

C3_ListingCoversRegistry ==
  (Called("list_adk_agents") /\ last.arguments = NoArgs) =>
    /\ AnswersSuccess(last)
    /\ Len(Answer(last).agents) = Len(AGENTS)
    /\ {Answer(last).agents[i].name : i \in 1..Len(Answer(last).agents)} = Keys(AGENTS)
    /\ Answer(last).total_count = Len(AGENTS)

(* C4: from a successful create_adk_agent under a name until the next create *)
(* under that name, get_adk_agent_info of the name answers success with the  *)
(* name, model, instruction, description and tools that create was given     *)
(* (the declared defaults where it was given none), whatever ran in between. *)

InfoOf(n) ==
  handle_call_tool(AGENTS, SESSIONS, "get_adk_agent_info", [agent_name |-> n], NoOracle)

C4_InfoReturnsWhatCreateWasGiven ==
  \A n \in DOMAIN given :
    /\ AnswersSuccess(InfoOf(n))
    /\ Answer(InfoOf(n)).agent.name = given[n].name
    /\ Answer(InfoOf(n)).agent.model = given[n].model
    /\ Answer(InfoOf(n)).agent.instruction = given[n].instruction
    /\ Answer(InfoOf(n)).agent.description = given[n].description
    /\ Answer(InfoOf(n)).agent.tools = given[n].tools
    /\ (Called("get_adk_agent_info") /\ last.arguments = [agent_name |-> n])
         => last.content = InfoOf(n).content

\* get_adk_agent_info answered for an agent created with the description left
\* out, after MCP tools were added to it
C4_Witness ==
  /\ Called("get_adk_agent_info")
  /\ "agent_name" \in DOMAIN last.arguments
  /\ last.arguments.agent_name \in DOMAIN given
  /\ given[last.arguments.agent_name].description = ""
  /\ given[last.arguments.agent_name].model = "gemini-2.0-flash"
  /\ "mcp_tools" \in DOMAIN Get(AGENTS, last.arguments.agent_name).config
  /\ AnswersSuccess(last)

(* C5: handle_list_tools returns one fixed list of names, whatever AGENTS    *)
(* and SESSIONS hold, and the list has the eleven names the tools-list test  *)
(* expects.                                                                  *)

expected_tools ==
  << "create_adk_agent", "list_adk_agents", "get_adk_agent_info", "run_adk_agent",
     "list_available_tools", "evaluate_adk_agent", "create_multi_agent_system",
     "add_mcp_tools_to_agent", "search_web", "load_webpage_content",
     "get_adk_documentation" >>

C5_ToolListIsFixed ==
  last.kind = "list_tools" =>
    /\ last.listing = expected_tools \o <<"get_server_version">>
    /\ \A i \in 1..Len(expected_tools) :
         \E j \in 1..Len(last.listing) : last.listing[j] = expected_tools[i]

\* the tools were listed while the registry and the session cache held entries
C5_Witness ==
  last.kind = "list_tools" /\ Len(AGENTS) > 0 /\ Len(SESSIONS) > 0

(* C6: a name is dispatched to a handler if and only if handle_list_tools    *)
(* lists it, a listed name goes to the handler of that name, and any other   *)
(* name yields the "Unknown tool: <name>" error with no handler invoked.     *)

C6_DispatchAgreesWithListing ==
  last.kind = "call_tool" =>
    /\ (last.handler # "none") <=> (last.name \in ListedNames)
    /\ last.handler # "none" => last.handler = last.name
    /\ last.name \notin ListedNames =>
         /\ last.handler = "none"
         /\ last.caught = Exc("ValueError", "Unknown tool: " \o last.name)
         /\ last.content = <<PlainText("Error executing " \o last.name
                                       \o ": Unknown tool: " \o last.name)>>
         /\ last.fw = <<>>

\* a name that is not listed was called while the registry held an agent
C6_Witness ==
  /\ last.kind = "call_tool"
  /\ last.name = "get_version"
  /\ last.handler = "none"
  /\ Len(AGENTS) > 0

(* C7: a call to a listed tool whose arguments leave out a parameter the     *)
(* schema requires, or give one the schema does not declare, answers an      *)
(* error, calls nothing of the framework and leaves AGENTS and SESSIONS as   *)
(* they were.                                                                *)

C7_UnfitArgumentsHaveNoEffect ==
  [][(last'.kind = "call_tool" /\ last'.name \in ListedNames
        /\ ~FitsSchema(last'.name, last'.arguments))
       => /\ Len(last'.content) = 1
          /\ last'.caught # NoExc \/ AnswersError(last')
          /\ last'.fw = <<>>
          /\ AGENTS' = AGENTS
          /\ SESSIONS' = SESSIONS]_vars

\* create_adk_agent was called without its instruction
C7_Witness ==
  /\ Called("create_adk_agent")
  /\ DOMAIN last.arguments = {"name"}
  /\ last.caught.type = "TypeError"
  /\ ~Has(AGENTS, last.arguments.name)

(* C8: for every parameter with a declared default, a call that leaves the   *)
(* parameter out answers the same text and leaves the same AGENTS and        *)
(* SESSIONS as the same call giving the declared default, the framework      *)
(* behaving alike in both.                                                   *)

AllOracles == {[runs |-> <<o>>, ok |-> b] : o \in RunOracles, b \in BOOLEAN}

SameOutcome(r1, r2) ==
  /\ r1.content = r2.content
  /\ r1.AGENTS = r2.AGENTS
  /\ r1.SESSIONS = r2.SESSIONS

C8_OmittedIsDeclaredDefault ==
  last.kind = "none" =>
    \A t \in 1..Len(handle_list_tools) :
      \A p \in DOMAIN handle_list_tools[t].defaults :
        \A arguments \in Inputs[handle_list_tools[t].name] :
          (FitsSchema(handle_list_tools[t].name, arguments) /\ p \notin DOMAIN arguments)
            => \A oracle \in AllOracles :
                 SameOutcome(
                   handle_call_tool(AGENTS, SESSIONS, handle_list_tools[t].name,
                                    arguments, oracle),
                   handle_call_tool(AGENTS, SESSIONS, handle_list_tools[t].name,
                                    (p :> handle_list_tools[t].defaults[p]) @@ arguments,
                                    oracle))

(* C9: get_adk_agent_info, run_adk_agent, evaluate_adk_agent and             *)
(* add_mcp_tools_to_agent, called with an agent_name that is not a key of    *)
(* AGENTS, answer {"error": "Agent '<agent_name>' not found"}, call nothing  *)
(* of the framework, and leave AGENTS and SESSIONS as they were.             *)

NeedsAgent ==
  {"get_adk_agent_info", "run_adk_agent", "evaluate_adk_agent", "add_mcp_tools_to_agent"}

C9_UnknownAgentIsRefused ==
  [][(last'.kind = "call_tool" /\ last'.name \in NeedsAgent
        /\ FitsSchema(last'.name, last'.arguments)
        /\ last'.arguments.agent_name \notin Keys(AGENTS))
       => /\ last'.content =
               <<JsonDumps([error |-> "Agent '" \o last'.arguments.agent_name
                                      \o "' not found"])>>
          /\ last'.fw = <<>>
          /\ AGENTS' = AGENTS
          /\ SESSIONS' = SESSIONS]_vars

\* an agent that is not registered was run while another was, with a session
C9_Witness ==
  /\ Called("run_adk_agent")
  /\ FitsSchema(last.name, last.arguments)
  /\ last.arguments.agent_name = "zz"
  /\ AnswersError(last)
  /\ Len(AGENTS) > 0
  /\ Len(SESSIONS) > 0

(* C10: create_multi_agent_system with a sub-agent name that is not          *)
(* registered answers a JSON error naming exactly the unregistered names, in *)
(* the order given, and leaves AGENTS as it was; with all of them registered *)
(* it stores under coordinator_name an entry of type                         *)
(* "multi_agent_coordinator" with the given sub_agents list, and             *)
(* sub_agent_count is the length of that list.                               *)

Unregistered(A, names) ==
  [i \in 1..Cardinality({j \in 1..Len(names) : names[j] \notin Keys(A)}) |->
     names[CHOOSE j \in 1..Len(names) :
             /\ names[j] \notin Keys(A)
             /\ Cardinality({k \in 1..j : names[k] \notin Keys(A)}) = i]]

C10_SubAgentsMustExist ==
  [][(last'.kind = "call_tool" /\ last'.name = "create_multi_agent_system"
        /\ FitsSchema(last'.name, last'.arguments))
       => IF \E j \in 1..Len(last'.arguments.sub_agents) :
               last'.arguments.sub_agents[j] \notin Keys(AGENTS)
          THEN /\ last'.content =
                    <<JsonDumps([error |-> "Missing sub-agents: "
                        \o ListRepr(Unregistered(AGENTS, last'.arguments.sub_agents))
                        \o ". Create them first."])>>
               /\ AGENTS' = AGENTS
          ELSE /\ Has(AGENTS', last'.arguments.coordinator_name)
               /\ Get(AGENTS', last'.arguments.coordinator_name).config.type
                    = "multi_agent_coordinator"
               /\ Get(AGENTS', last'.arguments.coordinator_name).config.sub_agents
                    = last'.arguments.sub_agents
               /\ AnswersSuccess(last')
               /\ Answer(last').coordinator.sub_agent_count
                    = Len(last'.arguments.sub_agents)]_vars

\* a coordinator was refused over two names of which the second is missing,
\* while the registry held the first
C10_Witness ==
  /\ Called("create_multi_agent_system")
  /\ FitsSchema(last.name, last.arguments)
  /\ last.arguments.sub_agents = <<"a_b", "zz">>
  /\ Has(AGENTS, "a_b")
  /\ AnswersError(last)
  /\ Answer(last).error = "Missing sub-agents: ['zz']. Create them first."

-----------------------------------------------------------------------------
(* C11: in a sequence of run_adk_agent calls on registered agents, a       *)
(* framework session is created only by the first call for an agent_name   *)
(* and session_id, every later call for them runs on the session the first *)
(* ran on, and no entry of SESSIONS is removed or replaced.                *)

RunsRegistered ==
  /\ last.kind = "none"
  /\ last'.kind = "call_tool"
  /\ last'.name = "run_adk_agent"
  /\ Binds("run_adk_agent", last'.arguments)
  /\ Has(AGENTS, last'.arguments.agent_name)

\* a create_session call that returned a session
Creates(fw) ==
  \E i \in 1..Len(fw) : fw[i].call = "create_session" /\ fw[i].session # 0

SessionsKept ==
  /\ Len(SESSIONS') >= Len(SESSIONS)
  /\ \A i \in 1..Len(SESSIONS) : SESSIONS'[i] = SESSIONS[i]

ReusesSession ==
  (RunPair(last'.arguments) \in DOMAIN called
     /\ called[RunPair(last'.arguments)] # 0)
  => /\ ~Creates(last'.fw)
     /\ RanOn(last'.fw) = called[RunPair(last'.arguments)]

\* as stated: only the first call for an agent_name and session_id creates
C11_OnlyFirstCallCreates ==
  [][/\ SessionsKept
     /\ RunsRegistered =>
          /\ Creates(last'.fw) => RunPair(last'.arguments) \notin DOMAIN called
          /\ ReusesSession]_vars

(* C11, amended: a session is created only by a call made while no earlier *)
(* call for the agent_name and session_id had a session (the first, or one *)
(* after calls whose session creation raised); once one of them had a      *)
(* session, every later call runs on that session and creates none; no     *)
(* entry of SESSIONS is removed or replaced.                               *)
C11_SessionIsReused ==
  [][/\ SessionsKept
     /\ RunsRegistered => ReusesSession]_vars

C11_Witness ==
  /\ last.kind = "call_tool"
  /\ last.name = "run_adk_agent"
  /\ Succeeded(last.content)
  /\ ~Creates(last.fw)
  /\ RanOn(last.fw) # 0
  /\ RanOn(last.fw) = called[RunPair(last.arguments)]
  /\ Len(SESSIONS) >= 2

-----------------------------------------------------------------------------
(* C12: every tool name that list_available_tools returns is accepted by   *)
(* create_adk_agent: given in tools, it attaches a tool to the created     *)
(* agent and is counted in tools_count; and total_count is the number of   *)
(* listed tools.                                                           *)

ToolsListedNow ==
  Answer(handle_call_tool(AGENTS, SESSIONS, "list_available_tools", NoArgs,
                          NoOracle)).available_tools

C12_ListedToolsAreAccepted ==
  /\ (Called("list_available_tools") /\ AnswersSuccess(last))
       => Answer(last).total_count = Cardinality(DOMAIN Answer(last).available_tools)
  /\ (/\ Called("create_adk_agent")
      /\ AnswersSuccess(last)
      /\ "tools" \in DOMAIN last.arguments
      /\ \A i \in 1..Len(last.arguments.tools.val) :
           last.arguments.tools.val[i] \in DOMAIN ToolsListedNow)
       => /\ Answer(last).agent.tools_count = Len(last.arguments.tools.val)
          /\ Len(Get(AGENTS, last.arguments.name).agent.tools)
               = Len(last.arguments.tools.val)

-----------------------------------------------------------------------------
(* C13: when a parallel agent runs two sub-agents of which the first       *)
(* listed waits before it emits and the second listed emits at once, the   *)
(* second's event is in the parallel agent's output before the first's.    *)

EventsBy(i) == {k \in 1..Len(par.events) : par.events[k].by = i}

FirstWaitsSecondDoesNot ==
  /\ Len(par.sub_agents) = 2
  /\ par.sub_agents[1].delay > 0
  /\ par.sub_agents[2].delay = 0

C13_CompletionOrder ==
  FirstWaitsSecondDoesNot =>
    \A k \in EventsBy(1) : \E j \in EventsBy(2) : j < k

C13_Witness ==
  /\ FirstWaitsSecondDoesNot
  /\ par.phase = "done"
  /\ par.events[1].event.author = par.sub_agents[2].name
  /\ par.events[2].event.author = par.sub_agents[1].name

(* C14: a parallel agent run over sub-agents that each emit one event      *)
(* terminates, having yielded exactly one event per sub-agent; and under   *)
(* every interleaving each yielded event carries the author, the branch    *)
(* (ending with that sub-agent's name) and the content of the sub-agent    *)
(* that produced it.                                                       *)

EndsWith(s, suffix) == \E prefix \in {"", par.parent \o "."} : s = prefix \o suffix

CarriesIdentityOf(event, sub_agent) ==
  /\ event.author = sub_agent.name
  /\ EndsWith(event.branch, sub_agent.name)
  /\ event.content = <<"Hello, async " \o sub_agent.name \o "!">>

EventsKeepIdentity ==
  /\ \A k \in 1..Len(par.events) :
       /\ CarriesIdentityOf(par.events[k].event, par.sub_agents[par.events[k].by])
       /\ \A i \in 1..Len(par.sub_agents) :
            i # par.events[k].by
              => ~CarriesIdentityOf(par.events[k].event, par.sub_agents[i])
  /\ \A i \in 1..Len(par.sub_agents) : Cardinality(EventsBy(i)) <= 1
  /\ par.phase = "done" =>
       /\ Len(par.events) = Len(par.sub_agents)
       /\ \A i \in 1..Len(par.sub_agents) : Cardinality(EventsBy(i)) = 1

C14_OneEventPerBranch ==
  /\ []EventsKeepIdentity
  /\ <>(par.phase = "done")

\* two branches became ready together and the second listed emitted first
C14_Witness ==
  /\ par.phase = "done"
  /\ Len(par.sub_agents) >= 2
  /\ par.sub_agents[1].delay = par.sub_agents[2].delay
  /\ \E j \in EventsBy(2) : \E k \in EventsBy(1) : j < k

-----------------------------------------------------------------------------
(* C15: the registry is a lookup table keyed by name.  A create call       *)
(* (create_adk_agent, or create_multi_agent_system whose sub-agents are    *)
(* all registered) under a registered name succeeds and replaces that      *)
(* entry; the registry never holds two entries for one name; its size      *)
(* grows by one exactly when a create succeeds under a new name; and no    *)
(* operation removes a name.                                               *)

Creating ==
  /\ last.kind = "none"
  /\ last'.kind = "call_tool"
  /\ \/ /\ last'.name = "create_adk_agent"
        /\ FitsSchema("create_adk_agent", last'.arguments)
     \/ /\ last'.name = "create_multi_agent_system"
        /\ FitsSchema("create_multi_agent_system", last'.arguments)
        /\ \A i \in 1..Len(last'.arguments.sub_agents) :
             Has(AGENTS, last'.arguments.sub_agents[i])

CreatedName ==
  IF last'.name = "create_adk_agent" THEN last'.arguments.name
  ELSE last'.arguments.coordinator_name

\* the entry under the created name is the one this call describes
EntryIsOfThisCall ==
  LET config == Get(AGENTS', CreatedName).config
  IN /\ config.name = CreatedName
     /\ "mcp_tools" \notin DOMAIN config
     /\ IF last'.name = "create_adk_agent"
        THEN /\ "type" \notin DOMAIN config
             /\ config.instruction = last'.arguments.instruction
             /\ config.model = Arg(last'.arguments, "model", "gemini-2.0-flash")
        ELSE /\ config.type = "multi_agent_coordinator"
             /\ config.instruction = last'.arguments.coordinator_instruction
             /\ config.sub_agents = last'.arguments.sub_agents

C15_RegistryIsKeyedByName ==
  [][/\ Cardinality(Keys(AGENTS')) = Len(AGENTS')
     /\ Keys(AGENTS) \subseteq Keys(AGENTS')
     /\ Creating =>
          /\ AnswersSuccess(last')
          /\ EntryIsOfThisCall
          /\ Len(AGENTS') = IF Has(AGENTS, CreatedName) THEN Len(AGENTS)
                            ELSE Len(AGENTS) + 1
     /\ ~Creating => Len(AGENTS') = Len(AGENTS)]_vars

\* a coordinator was created over "a_b" under the name "a", which was
\* registered before "a_b" was
C15_Witness ==
  /\ Called("create_multi_agent_system")
  /\ AnswersSuccess(last)
  /\ last.arguments.sub_agents = <<"a_b">>
  /\ Len(AGENTS) = 2
  /\ AGENTS[1].key = "a"
  /\ AGENTS[2].key = "a_b"

-----------------------------------------------------------------------------
(* C16: for every name that is a key of AGENTS, coordinators included,     *)
(* get_adk_agent_info(name) answers status "success" with that entry's     *)
(* configuration, not an error.                                            *)

C16_InfoOfAnyRegisteredAgent ==
  (/\ Called("get_adk_agent_info")
   /\ FitsSchema("get_adk_agent_info", last.arguments)
   /\ Has(AGENTS, last.arguments.agent_name))
    => /\ AnswersSuccess(last)
       /\ \A k \in {"name", "model", "instruction", "description"} :
            Answer(last).agent[k] = Get(AGENTS, last.arguments.agent_name).config[k]

-----------------------------------------------------------------------------
(* C17: a successful add_mcp_tools_to_agent appends exactly one toolset to *)
(* the tools of the agent it names, keeping the tools already attached in  *)
(* order; that agent's stored config gets mcp_tools equal to the call's    *)
(* command, args and filter; no other registry entry and no entry of       *)
(* SESSIONS changes; and an empty tool_filter reaches the framework as no  *)
(* filter.                                                                 *)

AddsMcpTools ==
  /\ last.kind = "none"
  /\ last'.kind = "call_tool"
  /\ last'.name = "add_mcp_tools_to_agent"
  /\ AnswersSuccess(last')

C17_AddsOneToolsetToOneAgent ==
  [][AddsMcpTools =>
       LET arguments == last'.arguments
           before == Get(AGENTS, arguments.agent_name)
           after == Get(AGENTS', arguments.agent_name)
           toolset == after.agent.tools[Len(after.agent.tools)]
       IN /\ Has(AGENTS, arguments.agent_name)
          /\ Len(after.agent.tools) = Len(before.agent.tools) + 1
          /\ \A i \in 1..Len(before.agent.tools) :
               after.agent.tools[i] = before.agent.tools[i]
          /\ toolset.kind = "MCPToolset"
          /\ toolset.name = arguments.mcp_server_command
          /\ toolset.args = arguments.mcp_server_args
          /\ toolset.tool_filter =
               IF "tool_filter" \in DOMAIN arguments
                    /\ Len(arguments.tool_filter.val) > 0
               THEN arguments.tool_filter ELSE PyNone
          /\ after.config.mcp_tools.command = arguments.mcp_server_command
          /\ after.config.mcp_tools.args = arguments.mcp_server_args
          /\ after.config.mcp_tools.filter = Arg(arguments, "tool_filter", PyNone)
          /\ \A k \in DOMAIN before.config \ {"mcp_tools"} :
               after.config[k] = before.config[k]
          /\ Len(AGENTS') = Len(AGENTS)
          /\ \A i \in 1..Len(AGENTS) :
               AGENTS[i].key # arguments.agent_name => AGENTS'[i] = AGENTS[i]
          /\ SESSIONS' = SESSIONS]_vars

\* an empty filter was given for an agent that had two tools, beside
\* another registered agent and a stored session
C17_Witness ==
  /\ Called("add_mcp_tools_to_agent")
  /\ AnswersSuccess(last)
  /\ "tool_filter" \in DOMAIN last.arguments
  /\ last.arguments.tool_filter = PyList(<<>>)
  /\ Len(Get(AGENTS, last.arguments.agent_name).agent.tools) = 3
  /\ Get(AGENTS, last.arguments.agent_name).agent.tools[3].tool_filter = PyNone
  /\ Len(AGENTS) = 2
  /\ Len(SESSIONS) = 1

-----------------------------------------------------------------------------
(* C18: for a registered agent and any list of n test cases, the answer of *)
(* evaluate_adk_agent has n results numbered 1..n in input order,          *)
(* total_tests = n, passed_tests = the number of results with passed true, *)
(* a case passing exactly when its expected_output occurs, letter case     *)
(* aside, in the response text; and success_rate is 0 when n = 0.          *)

Evaluates ==
  /\ Called("evaluate_adk_agent")
  /\ FitsSchema("evaluate_adk_agent", last.arguments)
  /\ Has(AGENTS, last.arguments.agent_name)

SummaryIsConsistent(test_cases, answer) ==
  /\ Len(answer.results) = Len(test_cases)
  /\ \A i \in 1..Len(answer.results) :
       /\ answer.results[i].test_case = i
       /\ answer.results[i].input = test_cases[i].input
       /\ answer.results[i].expected = test_cases[i].expected_output
       /\ answer.results[i].passed
            <=> /\ answer.results[i].actual.error = ""
                /\ Contains(Lower(test_cases[i].expected_output),
                            Lower(answer.results[i].actual.text))
  /\ answer.total_tests = Len(test_cases)
  /\ answer.passed_tests
       = Cardinality({i \in 1..Len(answer.results) : answer.results[i].passed})
  /\ answer.passed_tests <= answer.total_tests
  /\ Len(test_cases) = 0 => answer.success_rate.num = 0

C18_SummaryMatchesResults ==
  Evaluates =>
    /\ AnswersSuccess(last)
    /\ SummaryIsConsistent(last.arguments.test_cases, Answer(last))

-----------------------------------------------------------------------------
(* C19: for any test_cases list the declared schema accepts (objects whose *)
(* input and expected_output are optional), a case whose processing raises *)
(* is recorded with passed false and an actual value "Error: ...", the     *)
(* remaining cases are processed, and the answer is still a status         *)
(* "success" summary with one result per case.                             *)

\* processing case i raises: a key is missing, or the framework raises
CaseRaises(test_case, o) ==
  \/ ~o.session_ok
  \/ ~o.run_ok
  \/ MissingKeys(test_case, <<"input", "expected_output">>) # {}

ErrorTexts ==
  {"Error: " \o e.msg :
     e \in {FrameworkError, KeyError("input"), KeyError("expected_output")}}

C19_FailingCaseDoesNotAbort ==
  last.kind = "none" =>
    \A arguments \in EvalArgs :
      Has(AGENTS, arguments.agent_name) =>
        \A runs \in [1..Len(arguments.test_cases) -> EvalOracles] :
          LET r == handle_call_tool(AGENTS, SESSIONS, "evaluate_adk_agent", arguments,
                                    [runs |-> runs, ok |-> TRUE])
          IN /\ AnswersSuccess(r)
             /\ Len(Answer(r).results) = Len(arguments.test_cases)
             /\ \A i \in 1..Len(arguments.test_cases) :
                  /\ Answer(r).results[i].test_case = i
                  /\ CaseRaises(arguments.test_cases[i], runs[i])
                       => /\ ~Answer(r).results[i].passed
                          /\ Answer(r).results[i].actual.error \in ErrorTexts
                  /\ ~CaseRaises(arguments.test_cases[i], runs[i])
                       => Answer(r).results[i].actual.error = ""

-----------------------------------------------------------------------------
(* C20: when run_adk_agent on a registered agent answers an error (session *)
(* creation or the framework run raised), the answer is the JSON object    *)
(* {"error": "Failed to run agent: ..."}, nothing is raised, and AGENTS    *)
(* and SESSIONS are as they were before the call.                          *)

C20_FailedRunChangesNothing ==
  [][(RunsRegistered /\ ~AnswersSuccess(last'))
       => /\ last'.caught = NoExc
          /\ last'.exc = NoExc
          /\ AnswersError(last')
          /\ DOMAIN Answer(last') = {"error"}
          /\ Answer(last').error = "Failed to run agent: " \o FrameworkError.msg
          /\ AGENTS' = AGENTS
          /\ SESSIONS' = SESSIONS]_vars

-----------------------------------------------------------------------------
(* C21: two run_adk_agent calls whose agent_name and session_id differ     *)
(* never run on the same cached session, whatever the names and ids,       *)
(* underscores included.                                                   *)

C21_SessionsAreIsolated ==
  \A p \in DOMAIN called : \A q \in DOMAIN called :
    (p # q /\ called[p] # 0 /\ called[q] # 0) => called[p] # called[q]
====
